---- MODULE Spec2Model ----
(***************************************************************************)
(* RotatingCache (src/index.js): an in-memory key/value cache with a key   *)
(* limit, per-entry TTL, a rotation (eviction) policy, running statistics  *)
(* and one expiry timer.                                                    *)
(*                                                                         *)
(* The cache is single threaded: every method runs to completion, and the  *)
(* timer callback runs between two method calls.  Each method is one       *)
(* action; the clock (Date.now) is the variable now, advanced by Tick.     *)
(***************************************************************************)
EXTENDS Integers, Sequences, FiniteSets

\* Bounds of the model.
MaxTime == 2        \* the clock runs over 0..MaxTime
MaxCount == 1       \* hits and misses are counted up to MaxCount
MaxBatch == 2       \* longest array given to mset / mdel / mget
MaxDeficit == 1     \* stats.keys is followed down to -MaxDeficit
MaxHeap == 4        \* the objects the caller and deepCopy create

VARIABLES
    options,        \* this.options
    data,           \* this.data: the own properties, in Object.keys order
    stats,          \* this.stats
    checkTimeout,   \* the timer behind this.checkTimeout: "armed", "fired" or "cleared"
    closed,         \* history: close() has been called
    now,            \* Date.now()
    result,         \* how the last call or callback ended: [op, err]
    returned,       \* what the last call returned: <<>> is undefined, <<v>> is v
    heap            \* the objects alive: heap[ref] is the content of object ref

vars == <<options, data, stats, checkTimeout, closed, now, result, returned, heap>>

-----------------------------------------------------------------------------
(* JavaScript values, as far as the cache looks at them.                   *)

\* A JS number that may be NaN: <<>> is NaN, <<n>> is the number n.
NaN == <<>>
Num(n) == <<n>>
Minus(x, y) == IF x = NaN \/ y = NaN THEN NaN ELSE Num(x[1] - y[1])
Plus(x, y) == IF x = NaN \/ y = NaN THEN NaN ELSE Num(x[1] + y[1])

\* A cached value: its runtime type and its length (array and string
\* length, number of own keys of an object).
Value(type, length) == [type |-> type, length |-> length]

\* An object with one own key: a reference into the heap, which holds the
\* value of that key.
ObjectValue(ref) == [type |-> "object", length |-> 1, ref |-> ref]

\* deepCopy(value) of the deep-copy package: a primitive is returned as it
\* is, an object gives a new object with the content of the old one.
deepCopy(value) == IF value.type = "object" THEN [type |-> "copy", of |-> value] ELSE value

\* The heap once the object a call returns exists, and the value returned.
Allocate(h, ret) ==
    IF ret # <<>> /\ ret[1].type = "copy" THEN Append(h, h[ret[1].of.ref]) ELSE h

Reference(h, ret) ==
    IF ret # <<>> /\ ret[1].type = "copy" THEN <<ObjectValue(Len(h) + 1)>> ELSE ret

\* A key as the caller passes it: a string or a number.
StringKey(s) == [type |-> "string", str |-> s, num |-> 0]
NumberKey(n) == [type |-> "number", str |-> "", num |-> n]

Digits == <<"0", "1", "2", "3", "4", "5", "6", "7", "8", "9">>

\* Number.prototype.toString for a non-negative integer.
RECURSIVE NumberToString(_)
NumberToString(n) ==
    IF n < 10 THEN Digits[n + 1]
    ELSE NumberToString(n \div 10) \o Digits[(n % 10) + 1]

\* The property names every object inherits from Object.prototype that the
\* model follows; this.data = {} inherits them.
ObjectPrototypeKeys == {"valueOf"}

-----------------------------------------------------------------------------
(* Inputs.                                                                  *)

DEFAULT_OPTIONS ==
    [maxKeys |-> 2500, stdTTL |-> -1, checkperiod |-> 600,
     useClones |-> TRUE, deleteOnExpire |-> TRUE,
     rotateType |-> "oldest", objectValueSize |-> 80,
     promiseValueSize |-> 80, arrayValueSize |-> 40, ttlScale |-> 1000]

Numbers == {12}
KeyArgs == {StringKey("a"), StringKey("b")} \cup {NumberKey(n) : n \in Numbers}
BatchKeyArgs == {StringKey("a"), StringKey("b")}
InheritedKeyArgs == {StringKey("a"), StringKey("b"), StringKey("valueOf")}
Values == {Value("number", 0)}
\* The ttl argument: <<>> is null (not given), <<n>> is n seconds.
TtlArgs == {<<>>, <<0>>, <<1>>}

\* The options given to the constructor: maxKeys and rotateType, with the
\* default checkperiod (the timer is due long after the clock's range).
RotateTypes == {"oldest", "inactive", "expiry", "none"}
OptionArgs ==
    {[DEFAULT_OPTIONS EXCEPT !.maxKeys = 2, !.rotateType = r] : r \in RotateTypes \ {"expiry"}}
        \cup {[DEFAULT_OPTIONS EXCEPT !.maxKeys = 2, !.rotateType = "expiry", !.ttlScale = 1],
               [DEFAULT_OPTIONS EXCEPT !.maxKeys = 1, !.rotateType = "none"]}

\* Options with a timer that is due within the clock's range:
\* <<checkperiod, ttlScale>>.
TimerArgs == {<<0, 2>>, <<1, 1>>}
TimerOptionArgs ==
    {[DEFAULT_OPTIONS EXCEPT !.maxKeys = 2, !.checkperiod = t[1], !.ttlScale = t[2]] :
        t \in TimerArgs}

\* Options with and without useClones, and the objects the caller made
\* before it used the cache: {x: 0} and {x: 1}.
CloneOptionArgs == {[DEFAULT_OPTIONS EXCEPT !.maxKeys = 2, !.useClones = u] : u \in BOOLEAN}
CallerObjects == <<0, 1>>
Contents == {0, 1}

-----------------------------------------------------------------------------
(* Construction.                                                            *)

ROTATE_TYPES == {"oldest", "inactive", "expiry"}

ZeroStats ==
    [keys |-> 0, hits |-> 0, misses |-> 0, keySize |-> 0, valueSize |-> Num(0)]

\* setTimeout(callback, delay): a delay below 1 ms is run as 1 ms.
TimerDelay(ms) == IF ms < 1 THEN 1 ELSE ms

\* The clock value from which the timer armed by the constructor may fire.
TimerDue == TimerDelay(options.checkperiod * options.ttlScale)

Return(op, err) == [op |-> op, err |-> err]

\* The state the constructor leaves, given its options.
Constructed(optionArgs) ==
    /\ options \in optionArgs
    /\ data = <<>>
    /\ stats = ZeroStats
    /\ checkTimeout = "armed"
    /\ closed = FALSE
    /\ now = 0
    /\ result = Return("constructor", "")
    /\ returned = <<>>

\* The caller holds no object.
Init == Constructed(OptionArgs) /\ heap = <<>>

InitTimer == Constructed(TimerOptionArgs) /\ heap = <<>>

InitClone == Constructed(CloneOptionArgs) /\ heap = CallerObjects

-----------------------------------------------------------------------------
(* this.data, a plain object.  It is kept as the sequence of its own       *)
(* properties in the order Object.keys lists them: array indices in        *)
(* ascending order first, then the other names in order of creation.       *)
(* An entry is [key, value, size, ttl, added, lastAccess].                  *)

ObjectKeys(d) == [i \in 1..Len(d) |-> d[i].key]

HasOwn(d, key) == \E i \in 1..Len(d) : d[i].key = key

Lookup(d, key) == d[CHOOSE i \in 1..Len(d) : d[i].key = key]

\* if (this.data[key]): an own entry is an object, hence truthy; so is a
\* function inherited from Object.prototype.
Truthy(d, key) == HasOwn(d, key) \/ key \in ObjectPrototypeKeys

IsArrayIndex(key) == \E n \in Numbers : NumberToString(n) = key

ArrayIndex(key) == CHOOSE n \in Numbers : NumberToString(n) = key

\* delete this.data[key]
DeleteProperty(d, key) == SelectSeq(d, LAMBDA e : e.key # key)

\* this.data[key] = entry, for a key that is no own property yet.
DefineProperty(d, entry) ==
    LET before(e) == IF IsArrayIndex(entry.key)
                     THEN IsArrayIndex(e.key) /\ ArrayIndex(e.key) < ArrayIndex(entry.key)
                     ELSE TRUE
    IN  SelectSeq(d, before) \o <<entry>> \o SelectSeq(d, LAMBDA e : ~before(e))

\* this.data[key].field = v, for an own property.
AssignField(d, key, field, v) ==
    [i \in 1..Len(d) |-> IF d[i].key = key THEN [d[i] EXCEPT ![field] = v] ELSE d[i]]

-----------------------------------------------------------------------------
(* The private helpers.                                                     *)

_makeKey(key) == IF key.type = "string" THEN key.str ELSE NumberToString(key.num)

_getKeySize(key) == Len(key)

_getValueSize(value) ==
    CASE value.type \in {"null", "undefined"} -> 0
      [] value.type = "array" -> options.arrayValueSize * value.length
      [] value.type = "promise" -> options.promiseValueSize
      [] value.type = "string" -> value.length
      [] value.type \in {"number", "boolean"} -> 8
      [] value.type = "object" -> value.length * options.objectValueSize
      [] OTHER -> 0

_getTTLDate(d, key) == Lookup(d, key).ttl * options.ttlScale

-----------------------------------------------------------------------------
(* Array.prototype.sort(comparefn).                                         *)

Infinity == 2^30

Sign(x) == IF x < 0 THEN -1 ELSE IF x > 0 THEN 1 ELSE 0

\* comparefn, a function of two keys, is a consistent comparator for keys.
Consistent(keys, comparefn) ==
    LET K == {keys[i] : i \in 1..Len(keys)}
    IN  /\ \A a, b \in K : Sign(comparefn[a, b]) = -Sign(comparefn[b, a])
        /\ \A a, b, c \in K :
               comparefn[a, b] <= 0 /\ comparefn[b, c] <= 0 => comparefn[a, c] <= 0

\* The stable sort: each element goes before the first one it compares below.
StableSort(keys, comparefn) ==
    LET Insert(sorted, x) ==
            LET below == {i \in 1..Len(sorted) : comparefn[x, sorted[i]] < 0}
                at == IF below = {} THEN Len(sorted) + 1
                      ELSE CHOOSE i \in below : \A j \in below : i <= j
            IN  SubSeq(sorted, 1, at - 1) \o <<x>> \o SubSeq(sorted, at, Len(sorted))
        F[i \in 0..Len(keys)] == IF i = 0 THEN <<>> ELSE Insert(F[i - 1], keys[i])
    IN  F[Len(keys)]

Permutations(keys) ==
    {p \in [1..Len(keys) -> {keys[i] : i \in 1..Len(keys)}] :
        \A i, j \in 1..Len(keys) : i # j => p[i] # p[j]}

\* The arrays sort may leave: the stable order under a consistent comparator,
\* an implementation-defined order of the same elements under any other.
Sort(keys, comparefn) ==
    IF Len(keys) <= 1 THEN {keys}
    ELSE IF Consistent(keys, comparefn) THEN {StableSort(keys, comparefn)}
    ELSE Permutations(keys)

-----------------------------------------------------------------------------
(* The methods, as functions of the store s = [data, stats] and the time.  *)

Store(d, st) == [data |-> d, stats |-> st]

Outcome(s, err, ret) == [data |-> s.data, stats |-> s.stats, err |-> err, ret |-> ret]

\* this.data[key].size as the operand of -=: undefined, hence NaN, for an
\* inherited function.
SizeOperand(d, key) == IF HasOwn(d, key) THEN Num(Lookup(d, key).size) ELSE NaN

del(s, key) ==
    IF ~Truthy(s.data, key) THEN Outcome(s, "", <<0>>)
    ELSE Outcome(Store(DeleteProperty(s.data, key),
                       [s.stats EXCEPT !.keySize = @ - _getKeySize(key),
                                       !.valueSize = Minus(@, SizeOperand(s.data, key)),
                                       !.keys = @ - 1]),
                 "", <<1>>)

\* The keys the rotation of set may pick: element [0] of the sorted keys.
delKeys(d) ==
    LET keys == ObjectKeys(d)
        K == {keys[i] : i \in 1..Len(keys)}
        byAdded == [a \in K, b \in K |-> Lookup(d, b).added - Lookup(d, a).added]
        byLastAccess ==
            [a \in K, b \in K |-> Lookup(d, b).lastAccess - Lookup(d, a).lastAccess]
        byExpiry == [a \in K, b \in K |->
                        IF Lookup(d, a).ttl = -1 THEN Infinity
                        ELSE _getTTLDate(d, a) - _getTTLDate(d, b)]
        sorted == CASE options.rotateType = "oldest" -> Sort(keys, byAdded)
                    [] options.rotateType = "inactive" -> Sort(keys, byLastAccess)
                    [] options.rotateType = "expiry" -> Sort(keys, byExpiry)
    IN  {srt[1] : srt \in sorted}

\* The entry set stores.
Entry(key, value, ttl, time) ==
    [key |-> key, value |-> value, size |-> _getValueSize(value),
     ttl |-> IF ttl # <<>> THEN ttl[1] ELSE options.stdTTL,
     added |-> time, lastAccess |-> time]

\* Lines 64-76 of set: account for the entry and store it.
insert(s, key, value, ttl, time) ==
    LET e == Entry(key, value, ttl, time)
    IN  Outcome(Store(DefineProperty(s.data, e),
                      [s.stats EXCEPT !.keys = @ + 1,
                                      !.keySize = @ + _getKeySize(key),
                                      !.valueSize = Plus(@, Num(e.size))]),
                "", <<>>)

\* Mutant of set: the limit is tested before the stored entry is deleted.
set_ChecksFirst(s, keyArg, value, ttl, time) ==
    LET key == _makeKey(keyArg)
        s1 == IF Truthy(s.data, key) THEN del(s, key) ELSE s
    IN  IF s.stats.keys + 1 > options.maxKeys
        THEN IF options.rotateType \notin ROTATE_TYPES
             THEN {Outcome(s, "limit reached", <<>>)}
             ELSE IF Len(s1.data) = 0
             THEN {Outcome(s1, "TypeError", <<>>)}
             ELSE {insert(del(s1, k), key, value, ttl, time) : k \in delKeys(s1.data)}
        ELSE {insert(s1, key, value, ttl, time)}

\* set(key, value, ttl): the outcomes it may have.
set(s, keyArg, value, ttl, time) ==
    LET key == _makeKey(keyArg)
        s1 == IF Truthy(s.data, key) THEN del(s, key) ELSE s
    IN  IF s1.stats.keys + 1 > options.maxKeys
        THEN IF options.rotateType \notin ROTATE_TYPES
             THEN {Outcome(s1, "limit reached", <<>>)}
             ELSE IF Len(s1.data) = 0
             THEN {Outcome(s1, "TypeError", <<>>)}
             ELSE {insert(del(s1, k), key, value, ttl, time) : k \in delKeys(s1.data)}
        ELSE {insert(s1, key, value, ttl, time)}

\* data.forEach(... => this.set(key, value, ttl)): set after set; a set that
\* throws ends the loop with what the earlier ones stored.
forEachSet(s, batch, time) ==
    LET F[i \in 0..Len(batch)] ==
            IF i = 0 THEN {Outcome(s, "", <<>>)}
            ELSE UNION {IF o.err # "" THEN {o}
                        ELSE set(o, batch[i].key, batch[i].value, batch[i].ttl, time) :
                            o \in F[i - 1]}
    IN  F[Len(batch)]

\* Mutant of mset: the batch is not checked against maxKeys first.
mset_Unchecked(s, batch, time) == forEachSet(s, batch, time)

\* mset(data): the check of the whole batch, then the loop.
mset(s, batch, time) ==
    IF /\ s.stats.keys + Len(batch) > options.maxKeys
       /\ options.rotateType \notin ROTATE_TYPES
    THEN {Outcome(s, "limit will be reached", <<>>)}
    ELSE forEachSet(s, batch, time)

\* Mutant of get: the stored value is returned whatever useClones says.
get_StoredValue(s, keyArg, time) ==
    LET key == _makeKey(keyArg)
    IN  IF Truthy(s.data, key)
        THEN IF HasOwn(s.data, key)
             THEN Outcome(Store(AssignField(s.data, key, "lastAccess", time),
                                [s.stats EXCEPT !.hits = @ + 1]),
                          "", <<Lookup(s.data, key).value>>)
             ELSE Outcome(Store(s.data, [s.stats EXCEPT !.hits = @ + 1]), "", <<>>)
        ELSE Outcome(Store(s.data, [s.stats EXCEPT !.misses = @ + 1]), "", <<>>)

\* get(key).  An inherited function counts as a hit; its value is undefined,
\* and its lastAccess is set on the function, outside the cache.
get(s, keyArg, time) ==
    LET key == _makeKey(keyArg)
    IN  IF Truthy(s.data, key)
        THEN IF HasOwn(s.data, key)
             THEN Outcome(Store(AssignField(s.data, key, "lastAccess", time),
                                [s.stats EXCEPT !.hits = @ + 1]),
                          "", <<IF options.useClones
                                THEN deepCopy(Lookup(s.data, key).value)
                                ELSE Lookup(s.data, key).value>>)
             ELSE Outcome(Store(s.data, [s.stats EXCEPT !.hits = @ + 1]), "", <<>>)
        ELSE Outcome(Store(s.data, [s.stats EXCEPT !.misses = @ + 1]), "", <<>>)

\* mdel(keys): the sum of what the dels return.
mdel(s, keys) ==
    LET F[i \in 0..Len(keys)] ==
            IF i = 0 THEN Outcome(s, "", <<0>>)
            ELSE LET sum == F[i - 1]
                     o == del(sum, _makeKey(keys[i]))
                 IN  Outcome(o, "", <<sum.ret[1] + o.ret[1]>>)
    IN  F[Len(keys)]

\* Mutant of ttl: a ttl of 0 is stored like any other.
ttl_StoresZero(s, keyArg, seconds) ==
    LET key == _makeKey(keyArg)
    IN  IF ~Truthy(s.data, key) THEN Outcome(s, "does not exist", <<>>)
        ELSE IF HasOwn(s.data, key)
        THEN Outcome(Store(AssignField(s.data, key, "ttl", seconds), s.stats), "", <<>>)
        ELSE Outcome(s, "", <<>>)

\* Mutant of ttl: the ttl is stored in milliseconds.
ttl_StoresMillis(s, keyArg, seconds) ==
    LET key == _makeKey(keyArg)
    IN  IF ~Truthy(s.data, key) THEN Outcome(s, "does not exist", <<>>)
        ELSE IF seconds = 0 THEN Outcome(del(s, key), "", <<>>)
        ELSE IF HasOwn(s.data, key)
        THEN Outcome(Store(AssignField(s.data, key, "ttl", seconds * options.ttlScale),
                           s.stats), "", <<>>)
        ELSE Outcome(s, "", <<>>)

\* ttl(key, ttl).  On an inherited function the new ttl is set on the
\* function, outside the cache.
ttl(s, keyArg, seconds) ==
    LET key == _makeKey(keyArg)
    IN  IF ~Truthy(s.data, key) THEN Outcome(s, "does not exist", <<>>)
        ELSE IF seconds = 0 THEN Outcome(del(s, key), "", <<>>)
        ELSE IF HasOwn(s.data, key)
        THEN Outcome(Store(AssignField(s.data, key, "ttl", seconds), s.stats), "", <<>>)
        ELSE Outcome(s, "", <<>>)

getTtl(s, keyArg) ==
    LET key == _makeKey(keyArg)
    IN  IF ~Truthy(s.data, key) THEN Outcome(s, "does not exist", <<>>)
        ELSE IF HasOwn(s.data, key) THEN Outcome(s, "", <<Lookup(s.data, key).ttl>>)
        ELSE Outcome(s, "", <<>>)

flushAll == Outcome(Store(<<>>, ZeroStats), "", <<>>)

flushStats(s) == Outcome(Store(s.data, [s.stats EXCEPT !.hits = 0, !.misses = 0]), "", <<>>)

\* Mutant of expired: the ttl of -1 is not exempt.
expired_NoSentinel(d, key, time) ==
    Lookup(d, key).added + _getTTLDate(d, key) < time

\* The test of _expire on one entry.
expired(d, key, time) ==
    /\ Lookup(d, key).ttl > -1
    /\ Lookup(d, key).added + _getTTLDate(d, key) < time

\* _expire(): one pass over the keys the cache holds when it starts.
_expire(s, time) ==
    LET keys == ObjectKeys(s.data)
        F[i \in 0..Len(keys)] ==
            IF i = 0 THEN Outcome(s, "", <<>>)
            ELSE LET s1 == F[i - 1]
                 IN  IF expired(s1.data, keys[i], time) THEN del(s1, keys[i]) ELSE s1
    IN  F[Len(keys)]

\* Mutant of clearTimeout: the timer stays armed.
clearTimeout_Noop(timer) == timer

\* clearTimeout(timer): a timer that has fired or was cleared stays as it is.
clearTimeout(timer) == IF timer = "armed" THEN "cleared" ELSE timer

-----------------------------------------------------------------------------
(* The actions: one per method call, one for the timer, one for the clock.  *)

This == Store(data, stats)

\* A call of a method ends in one of its outcomes.  Only get returns a
\* value that may be an object.
Call(op, outcomes) ==
    /\ \E o \in outcomes :
          /\ data' = o.data
          /\ stats' = o.stats
          /\ result' = Return(op, o.err)
          /\ returned' = IF op = "get" THEN Reference(heap, o.ret) ELSE o.ret
          /\ heap' = IF op = "get" THEN Allocate(heap, o.ret) ELSE heap
          /\ Len(heap') <= MaxHeap
    /\ UNCHANGED <<options, checkTimeout, closed, now>>

\* The counters the model follows stay within its bounds.
InBounds(st) ==
    /\ st.hits + st.misses <= MaxCount
    /\ st.keys >= -MaxDeficit

Bounded(outcomes) == {o \in outcomes : InBounds(o.stats)}

KeySeqs(K) == UNION {[1..n -> K] : n \in 0..MaxBatch}

Batch(keys, value, seconds) ==
    [i \in 1..Len(keys) |-> [key |-> keys[i], value |-> value, ttl |-> seconds]]

SetCall(key, value, seconds) == Call("set", Bounded(set(This, key, value, seconds, now)))
MsetCall(batch) == Call("mset", Bounded(mset(This, batch, now)))
GetCall(key) == Call("get", Bounded({get(This, key, now)}))
DelCall(key) == Call("del", Bounded({del(This, _makeKey(key))}))
MdelCall(keys) == Call("mdel", Bounded({mdel(This, keys)}))
TtlCall(key, seconds) == Call("ttl", Bounded({ttl(This, key, seconds)}))
GetTtlCall(key) == Call("getTtl", {getTtl(This, key)})

Set == \E key \in KeyArgs, value \in Values, seconds \in TtlArgs : SetCall(key, value, seconds)

Mset ==
    \E keys \in KeySeqs(BatchKeyArgs), value \in Values :
        MsetCall(Batch(keys, value, <<>>))

Get == \E key \in KeyArgs : GetCall(key)

Del == \E key \in KeyArgs : DelCall(key)

Mdel == \E keys \in KeySeqs(BatchKeyArgs) : MdelCall(keys)

Ttl == \E key \in KeyArgs, seconds \in {0, 1} : TtlCall(key, seconds)

GetTtl == \E key \in KeyArgs : GetTtlCall(key)

FlushAll == Call("flushAll", {flushAll})

FlushStats == Call("flushStats", {flushStats(This)})

Close ==
    /\ checkTimeout' = clearTimeout(checkTimeout)
    /\ closed' = TRUE
    /\ result' = Return("close", "")
    /\ returned' = <<>>
    /\ UNCHANGED <<options, data, stats, now, heap>>

\* The timer armed by the constructor fires, once, and runs _expire.
Expire ==
    /\ checkTimeout = "armed"
    /\ now >= TimerDue
    /\ checkTimeout' = "fired"
    /\ LET o == _expire(This, now)
       IN  data' = o.data /\ stats' = o.stats
    /\ result' = Return("_expire", "")
    /\ returned' = <<>>
    /\ UNCHANGED <<options, closed, now, heap>>

Tick ==
    /\ now < MaxTime
    /\ now' = now + 1
    /\ UNCHANGED <<options, data, stats, checkTimeout, closed, result, returned, heap>>

\* The methods called within the first milliseconds of a cache with the
\* default timer.
Next == Set \/ Mset \/ Get \/ Del \/ Ttl \/ Tick

Spec == Init /\ [][Next]_vars

\* A cache whose timer is due early, and its close().
NextTimer == Set \/ Get \/ Del \/ Ttl \/ Close \/ Expire \/ Tick

TimerSpec == InitTimer /\ [][NextTimer]_vars

\* The methods called with keys that Object.prototype also names.
SetInherited ==
    \E key \in InheritedKeyArgs, value \in Values : SetCall(key, value, <<>>)

GetInherited == \E key \in InheritedKeyArgs : GetCall(key)

DelInherited == \E key \in InheritedKeyArgs : DelCall(key)

GetTtlInherited == \E key \in InheritedKeyArgs \ KeyArgs : GetTtlCall(key)

NextInherited ==
    \/ SetInherited \/ GetInherited \/ DelInherited \/ GetTtlInherited
    \/ Mdel \/ GetTtl \/ FlushAll \/ FlushStats

InheritedSpec == Init /\ [][NextInherited]_vars

\* Objects as values: the caller stores its objects, reads them, and assigns
\* to the key of the object the last get returned.
SetObject ==
    \E key \in BatchKeyArgs, ref \in 1..Len(CallerObjects) :
        SetCall(key, ObjectValue(ref), <<>>)

GetObject == \E key \in BatchKeyArgs : GetCall(key)

Mutate ==
    /\ result.op = "get"
    /\ returned # <<>>
    /\ \E x \in Contents \ {heap[returned[1].ref]} :
          heap' = [heap EXCEPT ![returned[1].ref] = x]
    /\ UNCHANGED <<options, data, stats, checkTimeout, closed, now, result, returned>>

NextClone == SetObject \/ GetObject \/ Mutate \/ Del \/ FlushStats \/ Tick

CloneSpec == InitClone /\ [][NextClone]_vars

-----------------------------------------------------------------------------
(* The claims.                                                              *)

\* The sum of f over the entries of d.
Sum(d, f(_)) ==
    LET S[i \in 0..Len(d)] == IF i = 0 THEN 0 ELSE S[i - 1] + f(d[i])
    IN  S[Len(d)]

OwnKeys(d) == {d[i].key : i \in 1..Len(d)}

AllKeyArgs == KeyArgs \cup InheritedKeyArgs

\* C1: in every reachable state stats.keys is the number of stored entries,
\* stats.keySize the sum of the lengths of their keys, and stats.valueSize
\* the sum of their size fields.
C1_Accounting ==
    /\ stats.keys = Len(data)
    /\ stats.keySize = Sum(data, LAMBDA e : Len(e.key))
    /\ stats.valueSize = Num(Sum(data, LAMBDA e : e.size))

\* C2: the number of stored entries never exceeds maxKeys; and under an
\* evicting policy a set of a new key into a store that holds maxKeys entries
\* removes exactly one stored entry and inserts the new one.
C2_CapacityBound ==
    /\ [](Len(data) <= options.maxKeys)
    /\ [][\A k \in AllKeyArgs, v \in Values, t \in TtlArgs :
            /\ options.rotateType \in ROTATE_TYPES
            /\ ~HasOwn(data, _makeKey(k))
            /\ Len(data) = options.maxKeys
            /\ SetCall(k, v, t)
            => /\ Len(data') = options.maxKeys
               /\ HasOwn(data', _makeKey(k))
               /\ Cardinality(OwnKeys(data) \ OwnKeys(data')) = 1]_vars

\* C6: under rotateType 'none' a set of a key that is not stored, into a store
\* that holds maxKeys entries, fails with the limit error and leaves the
\* entries and the statistics as they were.
C6_NoneRejects ==
    [][\A k \in AllKeyArgs, v \in Values, t \in TtlArgs :
            /\ options.rotateType = "none"
            /\ ~HasOwn(data, _makeKey(k))
            /\ Len(data) = options.maxKeys
            /\ SetCall(k, v, t)
            => /\ result'.err = "limit reached"
               /\ data' = data
               /\ stats' = stats]_vars

\* The step is a call of method op (the clock stands still during a call).
IsCall(op) == result'.op = op /\ now' = now

\* The keys a step removes from the store.
Removed == OwnKeys(data) \ OwnKeys(data')

\* The step is a set of a key that is not stored into a store that holds
\* maxKeys entries, under policy rotateType.
Overflows(rotateType, k, v, t) ==
    /\ options.rotateType = rotateType
    /\ IsCall("set")
    /\ Len(data) = options.maxKeys
    /\ ~HasOwn(data, _makeKey(k))
    /\ SetCall(k, v, t)

\* C3: under 'oldest' the eviction removes one entry, and its added
\* timestamp is the smallest among the stored entries.
C3_OldestVictim ==
    [][\A k \in KeyArgs, v \in Values, t \in TtlArgs :
            Overflows("oldest", k, v, t)
            => /\ Cardinality(Removed) = 1
               /\ \A x \in Removed : \A i \in 1..Len(data) :
                      Lookup(data, x).added <= data[i].added]_vars

\* C4: under 'inactive' the eviction removes one entry, and its lastAccess
\* timestamp is the smallest among the stored entries.
C4_InactiveVictim ==
    [][\A k \in KeyArgs, v \in Values, t \in TtlArgs :
            Overflows("inactive", k, v, t)
            => /\ Cardinality(Removed) = 1
               /\ \A x \in Removed : \A i \in 1..Len(data) :
                      Lookup(data, x).lastAccess <= data[i].lastAccess]_vars

\* The time at which an entry expires: added + ttl * ttlScale, never for -1.
ExpiryTime(e) == IF e.ttl = -1 THEN Infinity ELSE e.added + e.ttl * options.ttlScale

\* C5: under 'expiry' the eviction removes the entry with the smallest expiry
\* time, and never an entry with ttl -1 while an entry with a finite ttl is
\* stored.
C5_ExpiryVictim ==
    [][\A k \in KeyArgs, v \in Values, t \in TtlArgs :
            Overflows("expiry", k, v, t)
            => /\ Cardinality(Removed) = 1
               /\ \A x \in Removed : \A i \in 1..Len(data) :
                      /\ ExpiryTime(Lookup(data, x)) <= ExpiryTime(data[i])
                      /\ Lookup(data, x).ttl = -1 => data[i].ttl = -1]_vars

\* C7: under 'none' an mset either fails with the batch error and leaves the
\* entries and the statistics as they were, or stores every entry of the
\* batch; no set inside it fails part-way.
C7_MsetAllOrNothing ==
    [][\A keys \in KeySeqs(BatchKeyArgs), v \in Values :
            /\ options.rotateType = "none"
            /\ IsCall("mset")
            /\ MsetCall(Batch(keys, v, <<>>))
            => \/ /\ result'.err = "limit will be reached"
                  /\ data' = data
                  /\ stats' = stats
               \/ /\ result'.err = ""
                  /\ \A i \in 1..Len(keys) :
                        /\ HasOwn(data', _makeKey(keys[i]))
                        /\ Lookup(data', _makeKey(keys[i])).value = v
                        /\ Lookup(data', _makeKey(keys[i])).added = now]_vars

\* An mset of two entries into the empty store with maxKeys = 1 has failed.
C7_Witness ==
    /\ options.rotateType = "none"
    /\ result = Return("mset", "limit will be reached")
    /\ data = <<>>
    /\ stats = ZeroStats

\* C8: in a store with checkperiod > 0 that was never closed, an entry whose
\* expiry time has passed is removed by a sweep to come: while such an entry
\* is stored, the timer is armed.
C8_ExpiredIsSwept ==
    /\ options.checkperiod > 0
    /\ ~closed
    /\ \E i \in 1..Len(data) : data[i].ttl > -1 /\ ExpiryTime(data[i]) < now
    => checkTimeout = "armed"

\* The step is the timer firing.
Fires == checkTimeout = "armed" /\ checkTimeout' = "fired"

\* C9: a sweep at time now removes exactly the entries with ttl > -1 and
\* added + ttl * ttlScale < now, and leaves every other entry as it was.
C9_SweepRemovesExpired ==
    [][Fires => data' = SelectSeq(data, LAMBDA e : ~(e.ttl > -1 /\ ExpiryTime(e) < now))]_vars

\* A sweep has run and has kept the one entry with ttl -1, added more than
\* ttlScale ms ago.
C9_Witness ==
    /\ result.op = "_expire"
    /\ Len(data) = 1
    /\ data[1].ttl = -1
    /\ data[1].added + options.ttlScale < now

\* C10: once close() has returned the timer never fires; a further close()
\* changes nothing and raises no error; set, get and del still do their work.
C10_CloseStopsSweep ==
    /\ [](closed => checkTimeout # "armed")
    /\ [][closed => checkTimeout' = checkTimeout /\ closed']_vars
    /\ [][closed /\ IsCall("close")
            => result'.err = "" /\ UNCHANGED <<options, data, stats>>]_vars
    /\ [][closed /\ IsCall("set") /\ result'.err = ""
            => \E i \in 1..Len(data') : data'[i].added = now]_vars
    /\ [][closed /\ IsCall("get")
            => stats'.hits + stats'.misses = stats.hits + stats.misses + 1]_vars
    /\ [][closed /\ IsCall("del")
            => Cardinality(Removed) <= 1 /\ stats'.keys = Len(data')]_vars

\* The store was closed before its timer fired, and holds an entry that
\* expired while the timer was due.
C10_Witness ==
    /\ closed
    /\ checkTimeout = "cleared"
    /\ now >= TimerDue
    /\ \E i \in 1..Len(data) : data[i].ttl > -1 /\ ExpiryTime(data[i]) < now

\* The content of the object behind a value.
Content(h, value) == h[value.ref]

\* C11: a set stores the value it is given and a get of a stored key returns
\* a value equal to the stored one; with useClones, assigning to the object
\* a get returned changes no stored value, so every later get still returns
\* a value equal to the object the caller stored.
C11_RoundTrip ==
    /\ [][\A k \in BatchKeyArgs, r \in 1..Len(CallerObjects) :
            /\ IsCall("set")
            /\ result'.err = ""
            /\ SetCall(k, ObjectValue(r), <<>>)
            => /\ HasOwn(data', _makeKey(k))
               /\ Content(heap', Lookup(data', _makeKey(k)).value) = heap[r]]_vars
    /\ [][\A k \in BatchKeyArgs :
            /\ IsCall("get")
            /\ HasOwn(data, _makeKey(k))
            /\ GetCall(k)
            => /\ returned' # <<>>
               /\ Content(heap', returned'[1]) = Content(heap, Lookup(data, _makeKey(k)).value)
               /\ options.useClones
                    => Content(heap', returned'[1])
                         = CallerObjects[Lookup(data, _makeKey(k)).value.ref]]_vars
    /\ [][options.useClones
            => \A i \in 1..Len(data) : Content(heap', data[i].value) = Content(heap, data[i].value)]_vars

\* With useClones, a get has returned a copy, the caller has assigned to it,
\* and a second get has returned a value equal to the object stored.
C11_Witness ==
    /\ options.useClones
    /\ result.op = "get"
    /\ Len(heap) = 4
    /\ returned = <<ObjectValue(4)>>
    /\ heap[3] # heap[4]
    /\ \E i \in 1..Len(data) : heap[4] = CallerObjects[data[i].value.ref]

\* C12: del of an absent key returns 0 and changes nothing; del of a stored
\* key returns 1, removes that entry and no other, and takes 1 from keys, the
\* key's length from keySize and the entry's size from valueSize, leaving
\* hits and misses; mdel returns the number of entries it removed.
C12_DelFrame ==
    /\ [][\A k \in AllKeyArgs :
            IsCall("del") /\ DelCall(k)
            => IF HasOwn(data, _makeKey(k))
               THEN /\ returned' = <<1>>
                    /\ data' = SelectSeq(data, LAMBDA e : e.key # _makeKey(k))
                    /\ stats' = [stats EXCEPT
                                    !.keys = @ - 1,
                                    !.keySize = @ - Len(_makeKey(k)),
                                    !.valueSize = Minus(@, Num(Lookup(data, _makeKey(k)).size))]
               ELSE /\ returned' = <<0>>
                    /\ data' = data
                    /\ stats' = stats]_vars
    /\ [][\A keys \in KeySeqs(BatchKeyArgs) :
            IsCall("mdel") /\ MdelCall(keys)
            => returned' = <<Len(data) - Len(data')>>]_vars

\* C13: on a stored key, ttl(key, 0) leaves the entries and the statistics
\* that del(key) leaves from the same state.
C13_TtlZeroIsDel ==
    [][\A k \in KeyArgs :
            /\ IsCall("ttl")
            /\ HasOwn(data, _makeKey(k))
            /\ TtlCall(k, 0)
            => /\ data' = del(This, _makeKey(k)).data
               /\ stats' = del(This, _makeKey(k)).stats
               /\ ~HasOwn(data', _makeKey(k))]_vars

\* A ttl(key, 0) has removed the last entry of the store.
C13_Witness ==
    /\ result = Return("ttl", "")
    /\ data = <<>>
    /\ stats.keys = 0

\* C14: ttl and getTtl of a key that is not stored fail with the key error
\* and change neither the entries nor the statistics; getTtl of a stored key
\* returns the ttl field of its entry, which the passing of time leaves.
C14_KeyNotFound ==
    /\ [][\A k \in AllKeyArgs :
            IsCall("getTtl") /\ GetTtlCall(k)
            => /\ data' = data
               /\ stats' = stats
               /\ IF HasOwn(data, _makeKey(k))
                  THEN result'.err = "" /\ returned' = <<Lookup(data, _makeKey(k)).ttl>>
                  ELSE result'.err = "does not exist"]_vars
    /\ [][\A k \in KeyArgs, seconds \in {0, 1} :
            /\ IsCall("ttl")
            /\ ~HasOwn(data, _makeKey(k))
            /\ TtlCall(k, seconds)
            => /\ result'.err = "does not exist"
               /\ data' = data
               /\ stats' = stats]_vars
    /\ [][now' # now => data' = data]_vars

\* C15: a set with a ttl of 0 stores nothing: after the call the key is not
\* stored, and the statistics count the entries that are.
C15_SetTtlZero ==
    [][\A k \in KeyArgs, v \in Values :
            /\ IsCall("set")
            /\ result'.err = ""
            /\ SetCall(k, v, <<0>>)
            => /\ ~HasOwn(data', _makeKey(k))
               /\ stats'.keys = Len(data')]_vars

\* C16: in a store constructed with checkperiod <= 0 the timer never fires,
\* so no sweep ever removes an entry.
C16_NoSweep ==
    [][options.checkperiod <= 0 => ~Fires /\ result'.op # "_expire"]_vars

\* C17: under 'none' an mset whose keys, added to the stored ones, come to no
\* more than maxKeys keys is accepted, and stores every entry of the batch.
C17_MsetCountsKeys ==
    [][\A keys \in KeySeqs(BatchKeyArgs), v \in Values :
            /\ options.rotateType = "none"
            /\ IsCall("mset")
            /\ Cardinality(OwnKeys(data) \cup {_makeKey(keys[i]) : i \in 1..Len(keys)})
                    <= options.maxKeys
            /\ MsetCall(Batch(keys, v, <<>>))
            => /\ result'.err = ""
               /\ \A i \in 1..Len(keys) : HasOwn(data', _makeKey(keys[i]))]_vars

\* C18: ttl(key, seconds) with seconds # 0 on a stored key changes the ttl
\* field of that entry and nothing else, so the entry expires at its added
\* time + seconds * ttlScale; a sweep after that moment removes it.
C18_TtlFrame ==
    /\ [][\A k \in KeyArgs :
            /\ IsCall("ttl")
            /\ HasOwn(data, _makeKey(k))
            /\ TtlCall(k, 1)
            => /\ data' = [i \in 1..Len(data) |->
                             IF data[i].key = _makeKey(k)
                             THEN [data[i] EXCEPT !.ttl = 1] ELSE data[i]]
               /\ stats' = stats]_vars
    /\ [][Fires
            => \A i \in 1..Len(data) :
                  data[i].ttl > -1 /\ data[i].added + data[i].ttl * options.ttlScale < now
                  => ~HasOwn(data', data[i].key)]_vars

\* A ttl(key, 1) has been called on an entry after the millisecond it was
\* stored in, and the entry keeps its added time.
C18_Witness ==
    /\ result = Return("ttl", "")
    /\ \E i \in 1..Len(data) :
          data[i].ttl = 1 /\ data[i].added < now /\ data[i].lastAccess = data[i].added

\* C19: get of a stored key adds 1 to hits, sets the lastAccess of that entry
\* to the current time and changes nothing else; get of a key that is not
\* stored adds 1 to misses and changes nothing else; hits and misses never
\* decrease except by flushStats and flushAll.
C19_GetFrame ==
    /\ [][\A k \in AllKeyArgs :
            IsCall("get") /\ GetCall(k)
            => IF HasOwn(data, _makeKey(k))
               THEN /\ stats' = [stats EXCEPT !.hits = @ + 1]
                    /\ data' = [i \in 1..Len(data) |->
                                  IF data[i].key = _makeKey(k)
                                  THEN [data[i] EXCEPT !.lastAccess = now] ELSE data[i]]
               ELSE /\ stats' = [stats EXCEPT !.misses = @ + 1]
                    /\ data' = data]_vars
    /\ [][result'.op \notin {"flushStats", "flushAll"}
            => stats'.hits >= stats.hits /\ stats'.misses >= stats.misses]_vars

\* C20: a set of a stored key into a store that holds maxKeys entries does
\* not fail, under any rotateType; it replaces the entry of that key by one
\* with the new value and fresh added and lastAccess, and removes and changes
\* no other entry.
C20_OverwriteKeeps ==
    [][IsCall("set") /\ Len(data) = options.maxKeys
        => \A k \in KeyArgs :
              HasOwn(data, _makeKey(k))
              => \A v \in Values, t \in TtlArgs :
                    SetCall(k, v, t)
                    => /\ result'.err = ""
                       /\ OwnKeys(data') = OwnKeys(data)
                       /\ Lookup(data', _makeKey(k)).value = v
                       /\ Lookup(data', _makeKey(k)).added = now
                       /\ Lookup(data', _makeKey(k)).lastAccess = now
                       /\ \A i \in 1..Len(data) :
                             data[i].key # _makeKey(k)
                             => Lookup(data', data[i].key) = data[i]
                       /\ stats'.keys = stats.keys]_vars

\* Under 'none' the store is full after a successful set of "a", later than
\* the other entry was stored and read: the set found maxKeys entries or
\* maxKeys - 1, and in the first case it has replaced the entry of "a".
C20_Witness ==
    /\ options.rotateType = "none"
    /\ options.maxKeys = 2
    /\ result = Return("set", "")
    /\ Len(data) = 2
    /\ data[2].added = now
    /\ data[1].added < now
    /\ data[1].lastAccess < data[2].added
    /\ stats.hits = 1
    /\ data[2].key = "a"

====
